---- MODULE Spec2Model ----
(***************************************************************************)
(* defGeometry2D.hpp: the contains / intersects predicates over points,    *)
(* line segments, axis-aligned rectangles and circles, instantiated with   *)
(* a floating scalar type (T = double).                                    *)
(*                                                                         *)
(* Scalars.  A double is modelled by the real number it stands for, kept   *)
(* exactly as (n + m*sqrt(q)) / d with integers n, m, d > 0 and a          *)
(* square-free q > 1 (q = 0, m = 0 for a rational).  Every value the       *)
(* predicates compute from rational inputs has this form: the only         *)
(* irrational operation of the header is std::sqrt of a rational.  The     *)
(* IEEE special values are kept too, as d = 0: n = 0 is NaN, n = 1 is      *)
(* +Inf, n = -1 is -Inf, with the IEEE rules for arithmetic and for        *)
(* comparisons (every comparison with NaN is false).  Rounding is not      *)
(* modelled: a comparison that an exact real decides by a margin below one *)
(* unit in the last place is decided exactly here.                         *)
(***************************************************************************)
EXTENDS Integers, Sequences, FiniteSets, TLC

VARIABLES
    pc,             \* "idle": the caller holds fresh outputs; "done": a call returned
    call,           \* the call that returned: [op, a, b]
    intersections,  \* the caller's std::vector<vec2d<T2>> passed by reference
    side_out,       \* the caller's side variable passed as side* s
    side_list,      \* the caller's std::vector<side> passed as std::vector<side>* s
    ret,            \* the returned bool
    value,          \* the returned scalar (line::dist)
    trace,          \* floating-point events of the call: "div0_mag2", "div0_dist", "sqrt_neg"
    lerp_nan        \* what the build's std::lerp returns for t = NaN: "nan" or "b"

vars == <<pc, call, intersections, side_out, side_list, ret, value, trace, lerp_nan>>

(***************************************************************************)
(* Integer helpers of the scalar representation.                           *)
(***************************************************************************)
IAbs(i) == IF i < 0 THEN -i ELSE i

ISign(i) == IF i < 0 THEN -1 ELSE IF i > 0 THEN 1 ELSE 0

RECURSIVE GCD(_, _)
GCD(a, b) == IF b = 0 THEN a ELSE GCD(b, a % b)

\* A power of two t with t * t > k, from t on.
RECURSIVE RootBound(_, _)
RootBound(k, t) == IF t * t > k THEN t ELSE RootBound(k, 2 * t)

\* The s of S that is the largest.
Largest(S) == CHOOSE s \in S : \A t \in S : t <= s

\* The largest s with s * s dividing k (k >= 1).
SquarePart(k) == Largest({s \in 1..RootBound(k, 1) : s * s <= k /\ k % (s * s) = 0})

\* An operation outside the representation: evaluation stops with an error.
Unsupported == CHOOSE z \in {} : TRUE

(***************************************************************************)
(* The scalar type.                                                        *)
(***************************************************************************)
NaN == [n |-> 0, m |-> 0, d |-> 0, q |-> 0]

Inf(sg) == [n |-> sg, m |-> 0, d |-> 0, q |-> 0]

IsNaN(x) == x.d = 0 /\ x.n = 0

IsInf(x) == x.d = 0 /\ x.n # 0

\* (n1 + m1*sqrt(q1)) / d1 with d1 > 0 and q1 square-free, divided through by g.
MkDiv(n1, m1, d1, q1, g) ==
    [n |-> n1 \div g, m |-> m1 \div g, d |-> d1 \div g, q |-> IF m1 = 0 THEN 0 ELSE q1]

MkGcd(n1, m1, d1, q1) == MkDiv(n1, m1, d1, q1, GCD(GCD(IAbs(n1), IAbs(m1)), d1))

\* (n + m*s*sqrt(q1)) / d with q1 square-free: the sign goes to the numerator.
MkRad(n, m, d, s, q1) ==
    MkGcd(ISign(d) * (IF q1 = 1 THEN n + m * s ELSE n),
          IF q1 <= 1 THEN 0 ELSE ISign(d) * m * s,
          ISign(d) * d, q1)

\* s is the square part of q.
MkSq(n, m, d, q, s) == MkRad(n, m, d, s, IF m = 0 \/ q = 0 THEN 0 ELSE q \div (s * s))

\* The canonical form of (n + m*sqrt(q)) / d, d # 0.
Mk(n, m, d, q) == MkSq(n, m, d, q, IF m = 0 \/ q = 0 THEN 1 ELSE SquarePart(q))

Rat(n, d) == Mk(n, 0, d, 0)

Int2(i) == Mk(i, 0, 1, 0)

Zero == Int2(0)

One == Int2(1)

\* The sign of a scalar: -1, 0, 1 (0 for NaN).
Sgn(x) ==
    IF x.d = 0 THEN x.n
    ELSE IF x.m = 0 THEN ISign(x.n)
    ELSE IF x.n = 0 THEN ISign(x.m)
    ELSE IF ISign(x.n) = ISign(x.m) THEN ISign(x.n)
    ELSE IF x.n * x.n > x.m * x.m * x.q THEN ISign(x.n)
    ELSE ISign(x.m)

IsZero(x) == x.d # 0 /\ x.n = 0 /\ x.m = 0

Neg(x) == [x EXCEPT !.n = -x.n, !.m = -x.m]

\* The radical two finite operands share (0 when both are rational).
CommonQ(x, y) ==
    IF x.m = 0 THEN y.q
    ELSE IF y.m = 0 \/ y.q = x.q THEN x.q
    ELSE Unsupported

\* x + y of two finite scalars over the least common denominator, g = gcd(x.d, y.d).
AddOver(x, y, g) ==
    Mk(x.n * (y.d \div g) + y.n * (x.d \div g), x.m * (y.d \div g) + y.m * (x.d \div g),
       x.d * (y.d \div g), CommonQ(x, y))

Add(x, y) ==
    IF IsNaN(x) \/ IsNaN(y) THEN NaN
    ELSE IF IsInf(x) THEN (IF IsInf(y) /\ y.n # x.n THEN NaN ELSE x)
    ELSE IF IsInf(y) THEN y
    ELSE AddOver(x, y, GCD(x.d, y.d))

Sub(x, y) == Add(x, Neg(y))

Mul(x, y) ==
    IF IsNaN(x) \/ IsNaN(y) THEN NaN
    ELSE IF IsInf(x) \/ IsInf(y)
         THEN (IF IsZero(x) \/ IsZero(y) THEN NaN ELSE Inf(Sgn(x) * Sgn(y)))
    ELSE IF x.m # 0 /\ y.m # 0 /\ x.q # y.q
         THEN \* two pure radicals: sqrt(q1) * sqrt(q2) = sqrt(q1 * q2)
              (IF x.n = 0 /\ y.n = 0
               THEN Mk(0, x.m * y.m, x.d * y.d, x.q * y.q)
               ELSE Unsupported)
    ELSE Mk(x.n * y.n + x.m * y.m * CommonQ(x, y), x.n * y.m + x.m * y.n,
            x.d * y.d, CommonQ(x, y))

\* 1 / x for a finite x # 0: d * (n - m*sqrt(q)) / (n*n - m*m*q).
Inv(x) == Mk(x.d * x.n, -(x.d * x.m), x.n * x.n - x.m * x.m * x.q, x.q)

Div(x, y) ==
    IF IsNaN(x) \/ IsNaN(y) THEN NaN
    ELSE IF IsInf(y) THEN (IF IsInf(x) THEN NaN ELSE Zero)
    ELSE IF IsInf(x) THEN Inf(x.n * (IF Sgn(y) < 0 THEN -1 ELSE 1))
    ELSE IF IsZero(y) THEN (IF IsZero(x) THEN NaN ELSE Inf(Sgn(x)))
    ELSE Mul(x, Inv(y))

Lt(x, y) == ~IsNaN(x) /\ ~IsNaN(y) /\ x # y /\ Sgn(Sub(x, y)) < 0

Le(x, y) == ~IsNaN(x) /\ ~IsNaN(y) /\ (x = y \/ Sgn(Sub(x, y)) < 0)

Gt(x, y) == Lt(y, x)

Ge(x, y) == Le(y, x)

\* operator== of two doubles.
Eq(x, y) == ~IsNaN(x) /\ ~IsNaN(y) /\ x = y

\* abs / std::abs of a double.
FAbs(x) == IF Sgn(x) < 0 THEN Neg(x) ELSE x

\* sqrt(n / d) for n, d > 0 with square parts sn, sd:
\* sn * sqrt(tn * td) / (sd * td), tn = n / sn^2, td = d / sd^2.
SqrtRat(n, d, sn, sd) ==
    Mk(0, sn, sd * (d \div (sd * sd)), (n \div (sn * sn)) * (d \div (sd * sd)))

\* std::sqrt of a double holding a rational: NaN below zero.
Sqrt(x) ==
    IF IsNaN(x) THEN NaN
    ELSE IF IsInf(x) THEN (IF x.n > 0 THEN x ELSE NaN)
    ELSE IF x.m # 0 THEN Unsupported
    ELSE IF x.n < 0 THEN NaN
    ELSE IF x.n = 0 THEN Zero
    ELSE SqrtRat(x.n, x.d, SquarePart(x.n), SquarePart(x.d))

EPSILON == Rat(1, 10)

\* utils::equal: abs(lhs - rhs) <= EPSILON.
equal(lhs, rhs) == Le(FAbs(Sub(lhs, rhs)), EPSILON)

(***************************************************************************)
(* vec2d<T>.                                                               *)
(***************************************************************************)
Vec(x, y) == [x |-> x, y |-> y]

\* operator+(vec2d, vec2d)
VAdd(v1, v2) == Vec(Add(v1.x, v2.x), Add(v1.y, v2.y))

\* operator-(vec2d, vec2d)
VSub(v1, v2) == Vec(Sub(v1.x, v2.x), Sub(v1.y, v2.y))

\* operator*(vec2d, scalar) and operator*(scalar, vec2d)
VScale(v, s) == Vec(Mul(v.x, s), Mul(v.y, s))

\* operator-(vec2d, scalar)
VSubScalar(v, s) == Vec(Sub(v.x, s), Sub(v.y, s))

\* operator<= and operator>= : conjunctions over both components
VLe(v1, v2) == Le(v1.x, v2.x) /\ Le(v1.y, v2.y)

VGe(v1, v2) == Ge(v1.x, v2.x) /\ Ge(v1.y, v2.y)

dot(v1, v2) == Add(Mul(v1.x, v2.x), Mul(v1.y, v2.y))

mag2(v) == Add(Mul(v.x, v.x), Mul(v.y, v.y))

mag(v) == Sqrt(mag2(v))

\* vec2d::dist: (*this - v).length()
dist(v1, v2) == mag(VSub(v1, v2))

\* std::lerp(a, b, t) = a + t * (b - a).  The standard leaves t = NaN open: a
\* library either lets the NaN through, or (the reference implementation) takes
\* t * b + (1 - t) * a = NaN when 0 lies between a and b, and b otherwise.
std_lerp(a, b, t) ==
    IF /\ IsNaN(t) /\ lerp_nan = "b" /\ a.d # 0 /\ b.d # 0
       /\ ~(Le(a, Zero) /\ Ge(b, Zero)) /\ ~(Ge(a, Zero) /\ Le(b, Zero))
    THEN b
    ELSE Add(a, Mul(t, Sub(b, a)))

\* vec2d::lerp: std::lerp on each component
lerp(v1, v2, t) == Vec(std_lerp(v1.x, v2.x, t), std_lerp(v1.y, v2.y, t))

\* vec2d::norm: n = 1 / mag(); (x * n, y * n)
norm(v) == VScale(v, Div(One, mag(v)))

(***************************************************************************)
(* line<T>, rect<T>, circle<T>.                                            *)
(***************************************************************************)
Line(s, e) == [start |-> s, end |-> e]

Rect(p, s) == [pos |-> p, size |-> s]

\* circle<T>: radius is a float, whatever T is.
Circle(p, r) == [pos |-> p, radius |-> r]

vector(l) == VSub(l.end, l.start)

SIDE_LEFT == 0

SIDE_TOP == 1

SIDE_RIGHT == 2

SIDE_BOTTOM == 3

SIDE_NONE == 4

SIDES == 4

top_left(r) == r.pos

top_right(r) == Vec(Add(r.pos.x, r.size.x), r.pos.y)

bottom_left(r) == Vec(r.pos.x, Add(r.pos.y, r.size.y))

bottom_right(r) == VAdd(r.pos, r.size)

left(r) == Line(r.pos, Vec(r.pos.x, Add(r.pos.y, r.size.y)))

top(r) == Line(r.pos, Vec(Add(r.pos.x, r.size.x), r.pos.y))

\* A variant of rect::right that runs from the bottom right corner up.
right_upwards(r) == Line(bottom_right(r), Vec(Add(r.pos.x, r.size.x), r.pos.y))

right(r) == Line(Vec(Add(r.pos.x, r.size.x), r.pos.y), bottom_right(r))

bottom(r) == Line(Vec(r.pos.x, Add(r.pos.y, r.size.y)), bottom_right(r))

side(r, i) ==
    CASE i = SIDE_LEFT   -> left(r)
      [] i = SIDE_TOP    -> top(r)
      [] i = SIDE_RIGHT  -> right(r)
      [] i = SIDE_BOTTOM -> bottom(r)
      [] OTHER           -> Line(Vec(Zero, Zero), Vec(Zero, Zero))

\* line::dist: the distance to the infinite line, or to start when a = b = 0
line_dist_abc(l, v, a, b, c) ==
    IF Eq(a, Zero) /\ Eq(b, Zero) THEN dist(v, l.start)
    ELSE Div(FAbs(Add(Add(Mul(a, v.x), Mul(b, v.y)), c)),
             Sqrt(Add(Mul(a, a), Mul(b, b))))

line_dist(l, v) ==
    line_dist_abc(l, v, Sub(l.end.y, l.start.y), Sub(l.start.x, l.end.x),
                  Sub(Mul(l.end.x, l.start.y), Mul(l.start.x, l.end.y)))

(***************************************************************************)
(* contains.                                                               *)
(***************************************************************************)
contains_point_point(p1, p2) == equal(p1.x, p2.x) /\ equal(p1.y, p2.y)

\* sqr_dist < sqr_radius || utils::equal(sqr_dist, sqr_radius)
contains_circle_point(c, p) ==
    \/ Lt(mag2(VSub(c.pos, p)), Mul(c.radius, c.radius))
    \/ equal(mag2(VSub(c.pos, p)), Mul(c.radius, c.radius))

\* A variant of contains(rect, point) that lets a point within EPSILON of the
\* rect count as inside.
contains_rect_point_within(r, p) ==
    /\ VGe(p, VSubScalar(r.pos, EPSILON))
    /\ VLe(p, VSubScalar(bottom_right(r), Neg(EPSILON)))

contains_rect_point(r, p) == VGe(p, r.pos) /\ VLe(p, bottom_right(r))

contains_rect_rect(r1, r2) ==
    VLe(r1.pos, r2.pos) /\ VGe(bottom_right(r1), bottom_right(r2))

contains_rect_line(r, l) ==
    /\ VGe(l.start, r.pos) /\ VGe(l.end, r.pos)
    /\ VLe(l.start, bottom_right(r)) /\ VLe(l.end, bottom_right(r))

\* The bounding square of the circle: pos - radius, size 2 * radius on both axes.
contains_rect_circle(r, c) ==
    contains_rect_rect(r, Rect(VSubScalar(c.pos, c.radius),
                               Vec(Mul(c.radius, Int2(2)), Mul(c.radius, Int2(2)))))

contains_line_line(l1, l2) ==
    \/ contains_point_point(l1.start, l2.start) /\ contains_point_point(l1.end, l2.end)
    \/ contains_point_point(l1.start, l2.end) /\ contains_point_point(l1.end, l2.start)

\* p.dist(proj) < e, decided on the squares (both sides are >= 0), so that no
\* square root of an irrational is needed.
dist_less(p, proj, e) == Lt(mag2(VSub(p, proj)), Mul(e, e))

\* contains(line, point) from the range check of dp on.
contains_line_point_dp(l, p, dp) ==
    IF Lt(dp, Zero) \/ Gt(dp, One) THEN FALSE
    ELSE dist_less(p, lerp(l.start, l.end, dp), EPSILON)

contains_line_point(l, p) ==
    contains_line_point_dp(l, p, Div(dot(vector(l), VSub(p, l.start)), mag2(vector(l))))

\* The division of contains(line, point), line 929, by vec.mag2() = 0.
div0_mag2(l) == IF IsZero(mag2(vector(l))) THEN {"div0_mag2"} ELSE {}

contains_circle_circle(c1, c2) ==
    Ge(c1.radius, Add(dist(c1.pos, c2.pos), c2.radius))

contains_circle_line(c, l) ==
    contains_circle_point(c, l.start) /\ contains_circle_point(c, l.end)

\* The lambda check_dist of contains(circle, rect).
check_dist(c, edge) ==
    Le(dot(VSub(edge, c.pos), VSub(edge, c.pos)), Mul(c.radius, c.radius))

contains_circle_rect(c, r) ==
    /\ check_dist(c, r.pos) /\ check_dist(c, top_right(r))
    /\ check_dist(c, bottom_left(r)) /\ check_dist(c, bottom_right(r))

(***************************************************************************)
(* intersects.  Each overload is given the caller's output vector (and     *)
(* side output) as it is on entry and yields the returned bool, the vector *)
(* (and side output) as on return, and the floating-point events.          *)
(***************************************************************************)
\* std::vector::resize(n): truncated, or padded with vec2d() = (0, 0)
resize(v, n) ==
    IF Len(v) >= n THEN SubSeq(v, 1, n)
    ELSE v \o [k \in 1..(n - Len(v)) |-> Vec(Zero, Zero)]

intersects_point_point(p1, p2, v) ==
    IF contains_point_point(p1, p2)
    THEN [ret |-> TRUE, pts |-> Append(v, p2), trace |-> {}]
    ELSE [ret |-> FALSE, pts |-> v, trace |-> {}]

intersects_circle_point(c, p, v) ==
    IF equal(mag2(VSub(c.pos, p)), Mul(c.radius, c.radius))
    THEN [ret |-> TRUE, pts |-> Append(v, p), trace |-> {}]
    ELSE [ret |-> FALSE, pts |-> v, trace |-> {}]

intersects_line_point(l, p, v) ==
    IF contains_line_point(l, p)
    THEN [ret |-> TRUE, pts |-> Append(v, p), trace |-> div0_mag2(l)]
    ELSE [ret |-> FALSE, pts |-> v, trace |-> div0_mag2(l)]

\* The loop of intersects(rect, point) from side i on.
RECURSIVE intersects_rect_point_from(_, _, _, _, _, _)
intersects_rect_point_from(i, r, p, v, s, tr) ==
    IF i >= SIDES THEN [ret |-> FALSE, pts |-> v, s |-> s, trace |-> tr]
    ELSE IF contains_line_point(side(r, i), p)
         THEN [ret |-> TRUE, pts |-> Append(v, p), s |-> i,
               trace |-> tr \cup div0_mag2(side(r, i))]
         ELSE intersects_rect_point_from(i + 1, r, p, v, s,
                                         tr \cup div0_mag2(side(r, i)))

\* A variant of intersects(rect, point) that tests the region, not the sides.
intersects_rect_point_region(r, p, v, s) ==
    IF contains_rect_point(r, p)
    THEN [ret |-> TRUE, pts |-> Append(v, p), s |-> s, trace |-> {}]
    ELSE [ret |-> FALSE, pts |-> v, s |-> s, trace |-> {}]

\* A variant of intersects(rect, point) that goes on after a hit: the last side
\* that contains the point is reported.
intersects_rect_point_last(r, p, v, s) ==
    IF \E i \in 0..(SIDES - 1) : contains_line_point(side(r, i), p)
    THEN [ret |-> TRUE, pts |-> Append(v, p),
          s |-> Largest({i \in 0..(SIDES - 1) : contains_line_point(side(r, i), p)}),
          trace |-> {}]
    ELSE [ret |-> FALSE, pts |-> v, s |-> s, trace |-> {}]

intersects_rect_point(r, p, v, s) == intersects_rect_point_from(0, r, p, v, s, {})

\* The coefficients of a segment's line a * x + b * y = -c, lines 1065-1069
\* and 1082-1083.
line_a(l) == Sub(l.start.y, l.end.y)

line_b(l) == Sub(l.end.x, l.start.x)

line_c(l) == Sub(Mul(l.start.x, l.end.y), Mul(l.end.x, l.start.y))

\* det of line-line, line 1071.
line_line_det(l1, l2) == Sub(Mul(line_a(l1), line_b(l2)), Mul(line_b(l1), line_a(l2)))

\* A variant of line 1085 with the terms of y in the other order.
line_line_point_swapped(l1, l2) ==
    Vec(Div(Sub(Mul(line_b(l1), line_c(l2)), Mul(line_b(l2), line_c(l1))),
            line_line_det(l1, l2)),
        Div(Sub(Mul(line_a(l1), line_c(l2)), Mul(line_a(l2), line_c(l1))),
            line_line_det(l1, l2)))

\* The point of line-line for det # 0, line 1085.
line_line_point(l1, l2) ==
    Vec(Div(Sub(Mul(line_b(l1), line_c(l2)), Mul(line_b(l2), line_c(l1))),
            line_line_det(l1, l2)),
        Div(Sub(Mul(line_a(l2), line_c(l1)), Mul(line_a(l1), line_c(l2))),
            line_line_det(l1, l2)))

\* det == 0: contains(l2, l1.start) || contains(l1, l2.start), nothing is pushed;
\* first is the left operand, the right one is evaluated only when it is false.
line_line_collinear(l1, l2, v, first) ==
    [ret   |-> first \/ contains_line_point(l1, l2.start),
     pts   |-> v,
     trace |-> div0_mag2(l2) \cup (IF first THEN {} ELSE div0_mag2(l1))]

\* det # 0: contains(l1, point) && contains(l2, point); in1 is the left operand.
line_line_cross(l1, l2, v, point, in1) ==
    IF in1 /\ contains_line_point(l2, point)
    THEN [ret   |-> TRUE,
          pts   |-> [resize(v, 1) EXCEPT ![1] = point],
          trace |-> div0_mag2(l1) \cup div0_mag2(l2)]
    ELSE [ret   |-> FALSE,
          pts   |-> v,
          trace |-> div0_mag2(l1) \cup (IF in1 THEN div0_mag2(l2) ELSE {})]

line_line_at(l1, l2, v, point) ==
    line_line_cross(l1, l2, v, point, contains_line_point(l1, point))

intersects_line_line(l1, l2, v) ==
    IF Eq(line_line_det(l1, l2), Zero)
    THEN line_line_collinear(l1, l2, v, contains_line_point(l2, l1.start))
    ELSE line_line_at(l1, l2, v, line_line_point(l1, l2))

\* A variant of the inner loop body that takes the returned bool of
\* intersects(side, r2.side(j), points), not !points.empty(), for intersected.
rect_rect_body_any(acc, t) ==
    [pts   |-> IF t.pts # <<>> THEN Append(acc.pts, t.pts[1]) ELSE acc.pts,
     hit   |-> acc.hit \/ t.ret,
     trace |-> acc.trace \cup t.trace]

\* One pass of the inner loop body of intersects(rect, rect): t is what
\* intersects(side, r2.side(j), points) did to the fresh vector points.
rect_rect_body(acc, t) ==
    [pts   |-> IF t.pts # <<>> THEN Append(acc.pts, t.pts[1]) ELSE acc.pts,
     hit   |-> acc.hit \/ t.pts # <<>>,
     trace |-> acc.trace \cup t.trace]

\* The inner loop of intersects(rect, rect): side sd of r1 against sides j.. of
\* r2.  acc = [pts, hit, trace], hit being the local intersected.
RECURSIVE rect_rect_inner(_, _, _, _)
rect_rect_inner(j, sd, r2, acc) ==
    IF j >= SIDES THEN acc
    ELSE rect_rect_inner(j + 1, sd, r2,
                         rect_rect_body(acc, intersects_line_line(sd, side(r2, j), <<>>)))

\* The outer loop of intersects(rect, rect), from side i of r1 on; rect_rect_next
\* is the end of its body, acc being what the inner loop left.
RECURSIVE rect_rect_outer(_, _, _, _, _, _)
RECURSIVE rect_rect_next(_, _, _, _, _)
rect_rect_next(i, r1, r2, sl, acc) ==
    rect_rect_outer(i + 1, r1, r2, acc.pts, IF acc.hit THEN Append(sl, i) ELSE sl,
                    acc.trace)

rect_rect_outer(i, r1, r2, pts, sl, tr) ==
    IF i >= SIDES THEN [ret |-> pts # <<>>, pts |-> pts, sl |-> sl, trace |-> tr]
    ELSE rect_rect_next(i, r1, r2, sl,
                        rect_rect_inner(0, side(r1, i), r2,
                                        [pts |-> pts, hit |-> FALSE, trace |-> tr]))

\* intersections.clear() first; the side list is only appended to.
intersects_rect_rect(r1, r2, v, sl) == rect_rect_outer(0, r1, r2, <<>>, sl, {})

\* The loop of intersects(rect, line) from side i on; rect_line_next is the end of
\* its body, t being what intersects(l, r.side(i), points) did to the fresh points.
RECURSIVE rect_line_from(_, _, _, _, _, _)
RECURSIVE rect_line_next(_, _, _, _, _, _, _)
rect_line_next(i, r, l, pts, sl, tr, t) ==
    IF t.pts # <<>>
    THEN rect_line_from(i + 1, r, l, Append(pts, t.pts[1]), Append(sl, i), tr \cup t.trace)
    ELSE rect_line_from(i + 1, r, l, pts, sl, tr \cup t.trace)

rect_line_from(i, r, l, pts, sl, tr) ==
    IF i >= SIDES THEN [ret |-> pts # <<>>, pts |-> pts, sl |-> sl, trace |-> tr]
    ELSE rect_line_next(i, r, l, pts, sl, tr, intersects_line_line(l, side(r, i), <<>>))

intersects_rect_line(r, l, v, sl) == rect_line_from(0, r, l, <<>>, sl, {})

\* utils::equal(inter1, inter2) on two vec2d: within EPSILON on both axes.
equal_vec(v1, v2) == equal(v1.x, v2.x) /\ equal(v1.y, v2.y)

\* adj of circle-circle, line 1150.
circle_circle_adj(c1, c2) ==
    Div(Add(Sub(Mul(c1.radius, c1.radius), Mul(c2.radius, c2.radius)),
            Mul(dist(c1.pos, c2.pos), dist(c1.pos, c2.pos))),
        Mul(Int2(2), dist(c1.pos, c2.pos)))

\* The division by dist = 0 of concentric circles, line 1150.
div0_dist(c1, c2) == IF IsZero(dist(c1.pos, c2.pos)) THEN {"div0_dist"} ELSE {}

\* A variant of lines 1167-1172 that pushes both points without comparing them.
circle_circle_push_both(inter1, inter2, tr) ==
    [ret |-> TRUE, pts |-> <<inter1, inter2>>, trace |-> tr]

\* Lines 1167-1172: inter1 is pushed, inter2 when it is not equal to it.
circle_circle_push(inter1, inter2, tr) ==
    [ret   |-> TRUE,
     pts   |-> IF ~equal_vec(inter1, inter2) THEN <<inter1, inter2>> ELSE <<inter1>>,
     trace |-> tr]

\* Lines 1161-1165: the two points at hyp on either side of p, across the
\* direction d = c2.pos - c1.pos.
circle_circle_inter(p, hyp, d, dst, tr) ==
    circle_circle_push(Vec(Add(p.x, Div(Mul(hyp, d.y), dst)), Sub(p.y, Div(Mul(hyp, d.x), dst))),
                       Vec(Sub(p.x, Div(Mul(hyp, d.y), dst)), Add(p.y, Div(Mul(hyp, d.x), dst))),
                       tr)

\* Lines 1151-1158, given dist and adj.
circle_circle_hyp(c1, c2, dst, adj, sqr_hyp) ==
    IF Lt(sqr_hyp, Zero) THEN [ret |-> FALSE, pts |-> <<>>, trace |-> div0_dist(c1, c2)]
    ELSE circle_circle_inter(VAdd(VScale(VSub(c2.pos, c1.pos), Div(adj, dst)), c1.pos),
                             Sqrt(sqr_hyp), VSub(c2.pos, c1.pos), dst, div0_dist(c1, c2))

circle_circle_adj_on(c1, c2, dst, adj) ==
    circle_circle_hyp(c1, c2, dst, adj, Sub(Mul(c1.radius, c1.radius), Mul(adj, adj)))

intersects_circle_circle(c1, c2, v) ==
    circle_circle_adj_on(c1, c2, dist(c1.pos, c2.pos), circle_circle_adj(c1, c2))

\* closestPointToLine of circle-line, lines 1189-1191.
closestPointToLine(c, l) ==
    VAdd(l.start, VScale(vector(l), Div(dot(vector(l), VSub(c.pos, l.start)),
                                        mag2(vector(l)))))

\* Lines 1206-1209: the points on the segment are pushed, p1 first.
circle_line_push(l, p1, in1, p2, in2, tr) ==
    [ret   |-> in1 \/ in2,
     pts   |-> (IF in1 THEN <<p1>> ELSE <<>>) \o (IF in2 THEN <<p2>> ELSE <<>>),
     trace |-> tr]

circle_line_points(l, p1, p2, tr) ==
    circle_line_push(l, p1, contains_line_point(l, p1), p2, contains_line_point(l, p2), tr)

\* Lines 1202-1204: the chord's ends at length on either side of closest.
circle_line_chord(l, closest, radicand, step) ==
    circle_line_points(l, VAdd(closest, step), VSub(closest, step),
                       div0_mag2(l) \cup (IF Lt(radicand, Zero) THEN {"sqrt_neg"} ELSE {}))

circle_line_radicand(l, closest, radicand) ==
    circle_line_chord(l, closest, radicand, VScale(norm(vector(l)), Sqrt(radicand)))

\* Lines 1192-1209, given closestPointToLine and distToLine.
circle_line_closest(c, l, closest, distToLine) ==
    IF equal(distToLine, Mul(c.radius, c.radius))
    THEN [ret |-> TRUE, pts |-> <<closest>>, trace |-> div0_mag2(l)]
    ELSE circle_line_radicand(l, closest, Sub(Mul(c.radius, c.radius), distToLine))

circle_line_from_closest(c, l, closest) ==
    circle_line_closest(c, l, closest, mag2(VSub(c.pos, closest)))

intersects_circle_line(c, l, v) ==
    IF equal(line_dist(l, c.pos), c.radius)
    THEN \* "No intersection at all"
         [ret |-> FALSE, pts |-> <<>>, trace |-> {}]
    ELSE circle_line_from_closest(c, l, closestPointToLine(c, l))

\* intersects(c, l) with two arguments, called at line 1219 and iterated over: the
\* header declares no such overload.  It is taken to delegate to
\* intersects(circle, line, intersections) on a fresh vector and to return the
\* points (pts) that call reports.
intersects_circle_line_2(c, l) == intersects_circle_line(c, l, <<>>)

\* The loop of intersects(circle, rect) from side i on: every point that
\* intersects(circle, side) reports is pushed with the side's index;
\* circle_rect_next is the end of its body.
RECURSIVE circle_rect_from(_, _, _, _, _, _)
RECURSIVE circle_rect_next(_, _, _, _, _, _, _)
\* A variant of the loop body that pushes the side's index once for a side with
\* points, as intersects(rect, line) does.
circle_rect_next_once(i, c, r, pts, sl, tr, t) ==
    circle_rect_from(i + 1, c, r, pts \o t.pts,
                     IF t.pts # <<>> THEN Append(sl, i) ELSE sl, tr \cup t.trace)

circle_rect_next(i, c, r, pts, sl, tr, t) ==
    circle_rect_from(i + 1, c, r, pts \o t.pts, sl \o [k \in 1..Len(t.pts) |-> i],
                     tr \cup t.trace)

circle_rect_from(i, c, r, pts, sl, tr) ==
    IF i >= SIDES THEN [ret |-> pts # <<>>, pts |-> pts, sl |-> sl, trace |-> tr]
    ELSE circle_rect_next(i, c, r, pts, sl, tr, intersects_circle_line_2(c, side(r, i)))

intersects_circle_rect(c, r, v, sl) == circle_rect_from(0, c, r, <<>>, sl, {})

\* The mirror overloads delegate with the arguments swapped.
intersects_point_line(p, l, v) == intersects_line_point(l, p, v)

intersects_point_rect(p, r, v, s) == intersects_rect_point(r, p, v, s)

\* A variant of intersects(point, circle) that tests the disc instead of delegating.
intersects_point_circle_disc(p, c, v) ==
    IF contains_circle_point(c, p)
    THEN [ret |-> TRUE, pts |-> Append(v, p), trace |-> {}]
    ELSE [ret |-> FALSE, pts |-> v, trace |-> {}]

intersects_point_circle(p, c, v) == intersects_circle_point(c, p, v)

intersects_rect_circle(r, c, v, sl) == intersects_circle_rect(c, r, v, sl)

intersects_line_rect(l, r, v, sl) == intersects_rect_line(r, l, v, sl)

intersects_line_circle(l, c, v) == intersects_circle_line(c, l, v)

(***************************************************************************)
(* The inputs of the calls.                                                *)
(***************************************************************************)
MaxX == 3

MaxY == 1

MaxPos == 1

MaxSize == 2

MaxRadius == 2

MaxCC == 2

MaxFine == 2

Pts(mx, my) == {Vec(Int2(x), Int2(y)) : x \in 0..mx, y \in 0..my}

Points == Pts(MaxX, MaxY)

Lines == {Line(s, e) : s \in Points, e \in Points}

Rects == {Rect(p, Vec(Int2(w), Int2(h))) : p \in Pts(MaxPos, MaxPos),
                                           w \in 0..MaxSize, h \in 0..MaxSize}

Circles == {Circle(p, Int2(r)) : p \in Points, r \in 0..MaxRadius}

\* Points closer together than EPSILON: steps of 1/16, which a float holds exactly.
FinePoints == {Vec(Rat(i, 16), Rat(j, 16)) : i \in 0..MaxFine, j \in 0..MaxFine}

\* Circles for circle-circle: whole radii and the radii 1/16 and 11/8, which a
\* float holds exactly.
CirclesCC == {Circle(p, r) : p \in Pts(MaxCC, MaxPos),
                             r \in {Int2(k) : k \in 0..MaxRadius} \cup {Rat(1, 16), Rat(11, 8)}}

\* Small circles close to the lines through the whole points: centers in steps
\* of 1/16, radius 0 or 1/16.
CirclesFine == {Circle(p, r) : p \in FinePoints, r \in {Zero, Rat(1, 16)}}

(***************************************************************************)
(* The caller: fresh outputs, one call, then the results are read.         *)
(***************************************************************************)
NoCall == [op |-> "none"]

Init ==
    /\ pc = "idle"
    /\ call = NoCall
    /\ intersections = <<>>
    /\ side_out = SIDE_NONE
    /\ side_list = <<>>
    /\ ret = FALSE
    /\ value = Zero
    /\ trace = {}
    /\ lerp_nan \in {"nan", "b"}

\* A call of an overload without a side output returned r.
Returned(op, a, b, r) ==
    /\ pc' = "done"
    /\ call' = [op |-> op, a |-> a, b |-> b]
    /\ ret' = r.ret
    /\ intersections' = r.pts
    /\ trace' = r.trace
    /\ UNCHANGED <<side_out, side_list, value, lerp_nan>>

\* A call of an overload with side* s returned r.
ReturnedSide(op, a, b, r) ==
    /\ pc' = "done"
    /\ call' = [op |-> op, a |-> a, b |-> b]
    /\ ret' = r.ret
    /\ intersections' = r.pts
    /\ trace' = r.trace
    /\ side_out' = r.s
    /\ UNCHANGED <<side_list, value, lerp_nan>>

\* A call of an overload with std::vector<side>* s returned r.
ReturnedSides(op, a, b, r) ==
    /\ pc' = "done"
    /\ call' = [op |-> op, a |-> a, b |-> b]
    /\ ret' = r.ret
    /\ intersections' = r.pts
    /\ trace' = r.trace
    /\ side_list' = r.sl
    /\ UNCHANGED <<side_out, value, lerp_nan>>

IntersectsPointPoint ==
    /\ pc = "idle"
    /\ \E p1 \in FinePoints, p2 \in FinePoints :
         Returned("point_point", p1, p2, intersects_point_point(p1, p2, intersections))

IntersectsPointLine ==
    /\ pc = "idle"
    /\ \E p \in Points, l \in Lines :
         Returned("point_line", p, l, intersects_point_line(p, l, intersections))

IntersectsPointRect ==
    /\ pc = "idle"
    /\ \E p \in Points \cup FinePoints, r \in Rects :
         ReturnedSide("point_rect", p, r, intersects_point_rect(p, r, intersections, side_out))

IntersectsPointCircle ==
    /\ pc = "idle"
    /\ \E p \in Points, c \in Circles :
         Returned("point_circle", p, c, intersects_point_circle(p, c, intersections))

IntersectsCirclePoint ==
    /\ pc = "idle"
    /\ \E c \in Circles, p \in Points :
         Returned("circle_point", c, p, intersects_circle_point(c, p, intersections))

IntersectsRectPoint ==
    /\ pc = "idle"
    /\ \E r \in Rects, p \in Points \cup FinePoints :
         ReturnedSide("rect_point", r, p, intersects_rect_point(r, p, intersections, side_out))

IntersectsRectRect ==
    /\ pc = "idle"
    /\ \E r1 \in Rects, r2 \in Rects :
         ReturnedSides("rect_rect", r1, r2,
                       intersects_rect_rect(r1, r2, intersections, side_list))

IntersectsRectCircle ==
    /\ pc = "idle"
    /\ \E r \in Rects, c \in Circles :
         ReturnedSides("rect_circle", r, c,
                       intersects_rect_circle(r, c, intersections, side_list))

IntersectsLineLine ==
    /\ pc = "idle"
    /\ \E l1 \in Lines, l2 \in Lines :
         Returned("line_line", l1, l2, intersects_line_line(l1, l2, intersections))

IntersectsLineRect ==
    /\ pc = "idle"
    /\ \E l \in Lines, r \in Rects :
         ReturnedSides("line_rect", l, r,
                       intersects_line_rect(l, r, intersections, side_list))

IntersectsLineCircle ==
    /\ pc = "idle"
    /\ \E l \in Lines, c \in Circles :
         Returned("line_circle", l, c, intersects_line_circle(l, c, intersections))

IntersectsRectLine ==
    /\ pc = "idle"
    /\ \E r \in Rects, l \in Lines :
         ReturnedSides("rect_line", r, l,
                       intersects_rect_line(r, l, intersections, side_list))

IntersectsLinePoint ==
    /\ pc = "idle"
    /\ \E l \in Lines, p \in Points :
         Returned("line_point", l, p, intersects_line_point(l, p, intersections))

IntersectsCircleCircle ==
    /\ pc = "idle"
    /\ \E c1 \in CirclesCC, c2 \in CirclesCC :
         Returned("circle_circle", c1, c2, intersects_circle_circle(c1, c2, intersections))

IntersectsCircleLine ==
    /\ pc = "idle"
    /\ \E c \in Circles \cup CirclesFine, l \in Lines :
         Returned("circle_line", c, l, intersects_circle_line(c, l, intersections))

IntersectsCircleRect ==
    /\ pc = "idle"
    /\ \E c \in Circles, r \in Rects :
         ReturnedSides("circle_rect", c, r,
                       intersects_circle_rect(c, r, intersections, side_list))

\* contains(line, point): the outputs are not touched.
ContainsLinePoint ==
    /\ pc = "idle"
    /\ \E l \in Lines, p \in Points :
         /\ pc' = "done"
         /\ call' = [op |-> "contains_line_point", a |-> l, b |-> p]
         /\ ret' = contains_line_point(l, p)
         /\ trace' = div0_mag2(l)
         /\ UNCHANGED <<intersections, side_out, side_list, value, lerp_nan>>

\* line::dist
LineDist ==
    /\ pc = "idle"
    /\ \E l \in Lines, p \in Points :
         /\ pc' = "done"
         /\ call' = [op |-> "line_dist", a |-> l, b |-> p]
         /\ value' = line_dist(l, p)
         /\ trace' = {}
         /\ UNCHANGED <<intersections, side_out, side_list, ret, lerp_nan>>

\* The caller drops the results and sets up fresh outputs for the next call.
NewCall ==
    /\ pc = "done"
    /\ pc' = "idle"
    /\ call' = NoCall
    /\ intersections' = <<>>
    /\ side_out' = SIDE_NONE
    /\ side_list' = <<>>
    /\ ret' = FALSE
    /\ value' = Zero
    /\ trace' = {}
    /\ UNCHANGED lerp_nan

Next ==
    \/ IntersectsPointPoint
    \/ IntersectsPointLine
    \/ IntersectsPointRect
    \/ IntersectsPointCircle
    \/ IntersectsCirclePoint
    \/ IntersectsRectPoint
    \/ IntersectsRectRect
    \/ IntersectsRectCircle
    \/ IntersectsLineLine
    \/ IntersectsLineRect
    \/ IntersectsLineCircle
    \/ IntersectsRectLine
    \/ IntersectsLinePoint
    \/ IntersectsCircleCircle
    \/ IntersectsCircleLine
    \/ IntersectsCircleRect
    \/ ContainsLinePoint
    \/ LineDist
    \/ NewCall

Spec == Init /\ [][Next]_vars

(***************************************************************************)
(* The shape accessors and the contains overloads, called on their own.    *)
(* They touch no output; the result is read from value (rect::side) or     *)
(* from ret.                                                               *)
(***************************************************************************)
\* Rects of any position and size, negative and zero sizes included.
RectsAny == {Rect(Vec(Int2(x), Int2(y)), Vec(Int2(w), Int2(h))) :
                 x \in -1..MaxPos, y \in -1..MaxPos, w \in -1..MaxSize, h \in -1..MaxSize}

\* A call that leaves the outputs alone returned.
ReturnedPure(op, a, b, r, v) ==
    /\ pc' = "done"
    /\ call' = [op |-> op, a |-> a, b |-> b]
    /\ ret' = r
    /\ value' = v
    /\ trace' = {}
    /\ UNCHANGED <<intersections, side_out, side_list, lerp_nan>>

\* rect::side(i), i = SIDES included (no case of the switch: a default line)
RectSide ==
    /\ pc = "idle"
    /\ \E r \in RectsAny, i \in 0..SIDES :
         ReturnedPure("rect_side", r, i, ret, side(r, i))

\* Points on, and 1/16 to either side of, the whole coordinates 0, 1 and 2.
EdgePoints == {Vec(Rat(i, 16), Rat(j, 16)) : i \in {-1, 0, 1, 15, 16, 17, 32, 33},
                                             j \in {-1, 0, 1, 15, 16, 17, 32, 33}}

\* Segments from around the corners (0,0) and (1,1) to a whole point.
EdgeLines == {Line(Vec(Rat(i, 16), Rat(j, 16)), e) : i \in {-1, 0, 16, 17},
                                                     j \in {-1, 0, 16, 17},
                                                     e \in Pts(MaxPos, MaxPos)}

\* contains(rect, point)
ContainsRectPoint ==
    /\ pc = "idle"
    /\ \E r \in Rects, p \in EdgePoints :
         ReturnedPure("contains_rect_point", r, p, contains_rect_point(r, p), value)

\* contains(rect, line)
ContainsRectLine ==
    /\ pc = "idle"
    /\ \E r \in Rects, l \in EdgeLines :
         ReturnedPure("contains_rect_line", r, l, contains_rect_line(r, l), value)

\* Circles around the whole points: whole radii and the radius 45/32, which a
\* float holds exactly and whose square is less than EPSILON below 2.
CirclesNear == {Circle(p, r) : p \in Pts(MaxPos, MaxPos),
                               r \in {Int2(k) : k \in 0..MaxRadius} \cup {Rat(45, 32)}}

\* contains(circle, point)
ContainsCirclePoint ==
    /\ pc = "idle"
    /\ \E c \in CirclesNear, p \in EdgePoints :
         ReturnedPure("contains_circle_point", c, p, contains_circle_point(c, p), value)

\* contains(circle, line)
ContainsCircleLine ==
    /\ pc = "idle"
    /\ \E c \in CirclesNear, l \in EdgeLines :
         ReturnedPure("contains_circle_line", c, l, contains_circle_line(c, l), value)

\* contains(circle, rect)
ContainsCircleRect ==
    /\ pc = "idle"
    /\ \E c \in CirclesNear, r \in Rects :
         ReturnedPure("contains_circle_rect", c, r, contains_circle_rect(c, r), value)

\* The quotient of two ints, truncated towards zero (y # 0).
int_div(x, y) ==
    Int2((IF (x.n < 0) # (y.n < 0) THEN -1 ELSE 1) * (IAbs(x.n) \div IAbs(y.n)))

\* vec2d<int>::mag: static_cast<int>(std::sqrt(x * x + y * y))
int_mag(v) ==
    Int2(CHOOSE k \in 0..mag2(v).n : k * k <= mag2(v).n /\ mag2(v).n < (k + 1) * (k + 1))

\* contains(line<int>, vec2d<int>): dp is an int quotient, proj a vec2d<int>, and
\* p.dist(proj) an int compared with EPSILON.
contains_line_point_int(l, p) ==
    IF \/ Lt(int_div(dot(vector(l), VSub(p, l.start)), mag2(vector(l))), Zero)
       \/ Gt(int_div(dot(vector(l), VSub(p, l.start)), mag2(vector(l))), One)
    THEN FALSE
    ELSE Lt(int_mag(VSub(p, lerp(l.start, l.end,
                int_div(dot(vector(l), VSub(p, l.start)), mag2(vector(l)))))),
            EPSILON)

\* contains(line<int>, vec2d<int>).  For start = end the int division by
\* vec.mag2() = 0 is undefined: any answer may come back.
ContainsLinePointInt ==
    /\ pc = "idle"
    /\ \E s \in Pts(MaxSize + 1, 1), e \in Pts(MaxSize + 1, 1), p \in Pts(MaxSize + 1, 1) :
         \E undefined \in BOOLEAN :
            /\ s = e \/ ~undefined
            /\ ReturnedPure("contains_line_point_int", Line(s, e), p,
                            IF s = e THEN undefined
                            ELSE contains_line_point_int(Line(s, e), p),
                            value)

NextShapes ==
    \/ RectSide
    \/ ContainsRectPoint
    \/ ContainsRectLine
    \/ ContainsCirclePoint
    \/ ContainsCircleLine
    \/ ContainsCircleRect
    \/ ContainsLinePointInt
    \/ NewCall

SpecShapes == Init /\ [][NextShapes]_vars

(***************************************************************************)
(* The caller reuses its outputs: the same vector, side variable and side  *)
(* list are passed to one intersects call after another.                   *)
(***************************************************************************)
\* What a call leaves in all three outputs, for an overload without a side
\* parameter (r), with side* s (r has s) and with std::vector<side>* s (r has sl).
KeepSides(r, s, sl) ==
    [ret |-> r.ret, pts |-> r.pts, s |-> s, sl |-> sl, trace |-> r.trace]

KeepList(r, sl) ==
    [ret |-> r.ret, pts |-> r.pts, s |-> r.s, sl |-> sl, trace |-> r.trace]

KeepSide(r, s) ==
    [ret |-> r.ret, pts |-> r.pts, s |-> s, sl |-> r.sl, trace |-> r.trace]

\* The overload op called with (a, b), the vector v and, where it has the
\* parameter, the side variable s or the side list sl.
intersects_call(op, a, b, v, s, sl) ==
    CASE op = "point_point"   -> KeepSides(intersects_point_point(a, b, v), s, sl)
      [] op = "point_line"    -> KeepSides(intersects_point_line(a, b, v), s, sl)
      [] op = "point_rect"    -> KeepList(intersects_point_rect(a, b, v, s), sl)
      [] op = "point_circle"  -> KeepSides(intersects_point_circle(a, b, v), s, sl)
      [] op = "circle_point"  -> KeepSides(intersects_circle_point(a, b, v), s, sl)
      [] op = "rect_point"    -> KeepList(intersects_rect_point(a, b, v, s), sl)
      [] op = "rect_rect"     -> KeepSide(intersects_rect_rect(a, b, v, sl), s)
      [] op = "rect_circle"   -> KeepSide(intersects_rect_circle(a, b, v, sl), s)
      [] op = "line_line"     -> KeepSides(intersects_line_line(a, b, v), s, sl)
      [] op = "line_rect"     -> KeepSide(intersects_line_rect(a, b, v, sl), s)
      [] op = "line_circle"   -> KeepSides(intersects_line_circle(a, b, v), s, sl)
      [] op = "rect_line"     -> KeepSide(intersects_rect_line(a, b, v, sl), s)
      [] op = "line_point"    -> KeepSides(intersects_line_point(a, b, v), s, sl)
      [] op = "circle_circle" -> KeepSides(intersects_circle_circle(a, b, v), s, sl)
      [] op = "circle_line"   -> KeepSides(intersects_circle_line(a, b, v), s, sl)
      [] op = "circle_rect"   -> KeepSide(intersects_circle_rect(a, b, v, sl), s)

\* The caller reuses its outputs while they hold at most MaxKept entries each.
MaxKept == 1

\* A few shapes of each kind.
ReusePoints == Pts(2, 1)

ReuseLines == {Line(s, e) : s \in Pts(0, 1), e \in Pts(1, 0)}

ReuseRects == {Rect(Vec(Zero, Zero), Vec(Int2(w), Int2(w))) : w \in 1..2}

ReuseCircles == {Circle(p, One) : p \in Pts(1, 0)}

\* The shapes of kind k ("point", "line", "rect", "circle").
ReuseShapes(k) ==
    CASE k = "point"  -> ReusePoints
      [] k = "line"   -> ReuseLines
      [] k = "rect"   -> ReuseRects
      [] k = "circle" -> ReuseCircles

\* The overloads: the name and the kinds of the two shape parameters.
Overloads ==
    {<<"point_point", "point", "point">>, <<"point_line", "point", "line">>,
     <<"point_rect", "point", "rect">>, <<"point_circle", "point", "circle">>,
     <<"circle_point", "circle", "point">>, <<"rect_point", "rect", "point">>,
     <<"rect_rect", "rect", "rect">>, <<"rect_circle", "rect", "circle">>,
     <<"line_line", "line", "line">>, <<"line_rect", "line", "rect">>,
     <<"line_circle", "line", "circle">>, <<"rect_line", "rect", "line">>,
     <<"line_point", "line", "point">>, <<"circle_circle", "circle", "circle">>,
     <<"circle_line", "circle", "line">>, <<"circle_rect", "circle", "rect">>}

\* A call with the outputs as the caller holds them returned r; the outputs as
\* they were on entry are kept with the call (v, s, sl).
ReturnedAgain(op, a, b, r) ==
    /\ pc' = "done"
    /\ call' = [op |-> op, a |-> a, b |-> b,
                v |-> intersections, s |-> side_out, sl |-> side_list]
    /\ ret' = r.ret
    /\ intersections' = r.pts
    /\ side_out' = r.s
    /\ side_list' = r.sl
    /\ trace' = r.trace
    /\ UNCHANGED <<value, lerp_nan>>

\* Any intersects overload, called with the outputs the caller holds.
IntersectsAgain ==
    /\ pc = "idle"
    /\ \E o \in Overloads : \E a \in ReuseShapes(o[2]), b \in ReuseShapes(o[3]) :
         ReturnedAgain(o[1], a, b,
                       intersects_call(o[1], a, b, intersections, side_out, side_list))

\* The caller reads the results and keeps the outputs for the next call.
ReuseOutputs ==
    /\ pc = "done"
    /\ Len(intersections) <= MaxKept
    /\ Len(side_list) <= MaxKept
    /\ pc' = "idle"
    /\ call' = NoCall
    /\ ret' = FALSE
    /\ trace' = {}
    /\ UNCHANGED <<intersections, side_out, side_list, value, lerp_nan>>

NextReuse ==
    \/ IntersectsAgain
    \/ ReuseOutputs
    \/ NewCall

SpecReuse == Init /\ [][NextReuse]_vars

(***************************************************************************)
(* Properties.                                                             *)
(***************************************************************************)
\* The call op(a, b) has returned.
Done(op) == pc = "done" /\ call.op = op

Range(seq) == {seq[k] : k \in 1..Len(seq)}

IntersectsOps ==
    {"point_point", "point_line", "point_rect", "point_circle", "circle_point",
     "rect_point", "rect_rect", "rect_circle", "line_line", "line_rect", "line_circle",
     "rect_line", "line_point", "circle_circle", "circle_line", "circle_rect"}

\* The point lies closer than EPSILON to one of the four edge lines of the rect.
NearEdge(r, p) ==
    \/ Lt(FAbs(Sub(p.x, r.pos.x)), EPSILON)
    \/ Lt(FAbs(Sub(p.x, Add(r.pos.x, r.size.x))), EPSILON)
    \/ Lt(FAbs(Sub(p.y, r.pos.y)), EPSILON)
    \/ Lt(FAbs(Sub(p.y, Add(r.pos.y, r.size.y))), EPSILON)

\* r2 lies inside r1 and touches none of its edges.
StrictlyNested(r1, r2) ==
    /\ Lt(r1.pos.x, r2.pos.x) /\ Lt(r1.pos.y, r2.pos.y)
    /\ Lt(bottom_right(r2).x, bottom_right(r1).x)
    /\ Lt(bottom_right(r2).y, bottom_right(r1).y)

\* The squared distance of p to the center is radius^2, within EPSILON.
OnCircle(c, p) ==
    Le(FAbs(Sub(Add(Mul(Sub(p.x, c.pos.x), Sub(p.x, c.pos.x)),
                    Mul(Sub(p.y, c.pos.y), Sub(p.y, c.pos.y))),
                Mul(c.radius, c.radius))),
       EPSILON)

\* contains(A, B) of the call that returned, for the ordered pairs that have both
\* a contains and an intersects overload, rect-contains-circle left out.
ContainsOfCall ==
    CASE call.op = "point_point"   -> contains_point_point(call.a, call.b)
      [] call.op = "circle_point"  -> contains_circle_point(call.a, call.b)
      [] call.op = "rect_point"    -> contains_rect_point(call.a, call.b)
      [] call.op = "rect_rect"     -> contains_rect_rect(call.a, call.b)
      [] call.op = "rect_line"     -> contains_rect_line(call.a, call.b)
      [] call.op = "line_line"     -> contains_line_line(call.a, call.b)
      [] call.op = "line_point"    -> contains_line_point(call.a, call.b)
      [] call.op = "circle_circle" -> contains_circle_circle(call.a, call.b)
      [] call.op = "circle_line"   -> contains_circle_line(call.a, call.b)
      [] call.op = "circle_rect"   -> contains_circle_rect(call.a, call.b)
      [] OTHER                     -> FALSE

Mirror ==
    CASE call.op = "point_point"   -> intersects_point_point(call.b, call.a, <<>>)
      [] call.op = "point_line"    -> intersects_line_point(call.b, call.a, <<>>)
      [] call.op = "line_point"    -> intersects_point_line(call.b, call.a, <<>>)
      [] call.op = "point_rect"    -> intersects_rect_point(call.b, call.a, <<>>, SIDE_NONE)
      [] call.op = "rect_point"    -> intersects_point_rect(call.b, call.a, <<>>, SIDE_NONE)
      [] call.op = "point_circle"  -> intersects_circle_point(call.b, call.a, <<>>)
      [] call.op = "circle_point"  -> intersects_point_circle(call.b, call.a, <<>>)
      [] call.op = "line_line"     -> intersects_line_line(call.b, call.a, <<>>)
      [] call.op = "line_rect"     -> intersects_rect_line(call.b, call.a, <<>>, <<>>)
      [] call.op = "rect_line"     -> intersects_line_rect(call.b, call.a, <<>>, <<>>)
      [] call.op = "line_circle"   -> intersects_circle_line(call.b, call.a, <<>>)
      [] call.op = "circle_line"   -> intersects_line_circle(call.b, call.a, <<>>)
      [] call.op = "rect_rect"     -> intersects_rect_rect(call.b, call.a, <<>>, <<>>)
      [] call.op = "rect_circle"   -> intersects_circle_rect(call.b, call.a, <<>>, <<>>)
      [] call.op = "circle_rect"   -> intersects_rect_circle(call.b, call.a, <<>>, <<>>)
      [] call.op = "circle_circle" -> intersects_circle_circle(call.b, call.a, <<>>)

\* Every point of ps is within EPSILON, on both axes, of a point of qs.
NearSubset(ps, qs) == \A p \in Range(ps) : \E q \in Range(qs) : equal_vec(p, q)

\* The call that returned and the call m agree on the boolean and on the set of points.
SameResult(m) == ret = m.ret /\ Range(intersections) = Range(m.pts)

\* They agree on the boolean and on the number of points, and every point of
\* either is within EPSILON, on both axes, of a point of the other.
NearResult(m) ==
    /\ ret = m.ret
    /\ Len(intersections) = Len(m.pts)
    /\ NearSubset(intersections, m.pts)
    /\ NearSubset(m.pts, intersections)

\* C2 as stated: intersects(A, B) and intersects(B, A) return the same boolean
\* and the same set of points.
C2_Symmetric ==
    (pc = "done" /\ call.op \in IntersectsOps) => SameResult(Mirror)

\* C2 amended: intersects(A, B) and intersects(B, A) return the same boolean and
\* the same number of points; the two point sets are equal for every pair but
\* point-point and circle-circle (circles with different centers), where every
\* point of either call is within EPSILON, on both axes, of a point of the other.
C2_SymmetricWithinEpsilon ==
    (/\ pc = "done"
     /\ call.op \in IntersectsOps
     /\ ~(call.op = "circle_circle" /\ call.a.pos = call.b.pos)) =>
        IF call.op \in {"point_point", "circle_circle"}
        THEN NearResult(Mirror)
        ELSE SameResult(Mirror) /\ Len(intersections) = Len(Mirror.pts)

\* C2's case: two different points within EPSILON of each other; the call has
\* reported its second argument, the mirror call reports the other point.
C2_Witness ==
    /\ Done("point_point")
    /\ call.a # call.b
    /\ ret
    /\ intersections = <<call.b>>
    /\ Mirror.pts = <<call.a>>

\* C3: for every intersects overload called with an empty vector, the result is
\* true if and only if at least one point has been reported.
C3_TrueIffPoints ==
    (pc = "done" /\ call.op \in IntersectsOps) => (ret <=> intersections # <<>>)

\* u x w
Cross(u, w) == Sub(Mul(u.x, w.y), Mul(u.y, w.x))

\* The four end points of the two segments lie on one line.
Collinear(l1, l2) ==
    \A p \in {l1.start, l1.end, l2.start, l2.end} :
        \A q \in {l1.start, l1.end, l2.start, l2.end} :
            \A r \in {l1.start, l1.end, l2.start, l2.end} :
                IsZero(Cross(VSub(q, p), VSub(r, p)))

\* An end point of either segment lies on the other, per contains(line, point).
EndpointOnOther(l1, l2) ==
    \/ contains_line_point(l2, l1.start) \/ contains_line_point(l2, l1.end)
    \/ contains_line_point(l1, l2.start) \/ contains_line_point(l1, l2.end)

\* C4: line-line with det == 0 reports an intersection exactly when the segments
\* are collinear and an end point (start or end) of either lies on the other.
C4_CollinearPolicy ==
    (Done("line_line") /\ Eq(line_line_det(call.a, call.b), Zero)) =>
        (ret <=> (Collinear(call.a, call.b) /\ EndpointOnOther(call.a, call.b)))

\* The point satisfies the implicit equation a * x + b * y = -c of the segment's line.
OnLineOf(l, p) ==
    IsZero(Add(Add(Mul(line_a(l), p.x), Mul(line_b(l), p.y)), line_c(l)))

\* C5: line-line with det # 0 reports exactly one point, the solution of the two
\* implicit line equations, if and only if contains(l1, point) and
\* contains(l2, point); otherwise it returns false and reports no point.
C5_UniquePoint ==
    (Done("line_line") /\ ~Eq(line_line_det(call.a, call.b), Zero)) =>
        /\ OnLineOf(call.a, line_line_point(call.a, call.b))
        /\ OnLineOf(call.b, line_line_point(call.a, call.b))
        /\ ret <=> /\ contains_line_point(call.a, line_line_point(call.a, call.b))
                   /\ contains_line_point(call.b, line_line_point(call.a, call.b))
        /\ intersections = IF ret THEN <<line_line_point(call.a, call.b)>> ELSE <<>>

\* C5's case: (0,0)->(2,0) and (1,0)->(1,1) cross at (1,0).
C5_Witness ==
    /\ Done("line_line")
    /\ call.a = Line(Vec(Int2(0), Int2(0)), Vec(Int2(2), Int2(0)))
    /\ call.b = Line(Vec(Int2(1), Int2(0)), Vec(Int2(1), Int2(1)))
    /\ ret
    /\ intersections = <<Vec(Int2(1), Int2(0))>>

\* The segment has a direction, so that there is an infinite line through it.
NonDegenerate(l) == l.start # l.end

\* C6: when the distance of the center to the line through the segment equals the
\* radius within EPSILON, intersects(circle, line) returns true with exactly one
\* point, the point of the line closest to the center (stated for the tangent
\* point lying on the segment, as in the claim's example).
C6_TangentOnePoint ==
    (/\ Done("circle_line")
     /\ NonDegenerate(call.b)
     /\ Gt(call.a.radius, Zero)
     /\ equal(line_dist(call.b, call.a.pos), call.a.radius)
     /\ contains_line_point(call.b, closestPointToLine(call.a, call.b))) =>
        (ret /\ intersections = <<closestPointToLine(call.a, call.b)>>)

\* The chord's end closest + sg * h * normalize(vector), h = sqrt(radius^2 - distToLine^2).
ChordPoint(c, l, sg) ==
    VAdd(closestPointToLine(c, l),
         VScale(norm(vector(l)),
                Mul(Int2(sg), Sqrt(Sub(Mul(c.radius, c.radius),
                                       mag2(VSub(c.pos, closestPointToLine(c, l))))))))

\* C7: when the line passes strictly through the circle's interior,
\* intersects(circle, line) reports exactly those of the two chord points that
\* satisfy contains(line, point); every reported point lies on the segment and on
\* the circle.
C7_SecantChordPoints ==
    (/\ Done("circle_line")
     /\ NonDegenerate(call.b)
     /\ Lt(line_dist(call.b, call.a.pos), call.a.radius)) =>
        /\ Range(intersections) =
               {p \in {ChordPoint(call.a, call.b, 1), ChordPoint(call.a, call.b, -1)} :
                    contains_line_point(call.b, p)}
        /\ ret <=> intersections # <<>>
        /\ \A p \in Range(intersections) :
               contains_line_point(call.b, p) /\ OnCircle(call.a, p)

\* The two circles cross properly: |r1 - r2| < d < r1 + r2, on the squares.
CrossProperly(c1, c2) ==
    /\ Lt(Mul(Sub(c1.radius, c2.radius), Sub(c1.radius, c2.radius)),
          mag2(VSub(c1.pos, c2.pos)))
    /\ Lt(mag2(VSub(c1.pos, c2.pos)),
          Mul(Add(c1.radius, c2.radius), Add(c1.radius, c2.radius)))

\* The two circles are tangent from outside or from inside: d = r1 + r2 or d = |r1 - r2|.
Tangent(c1, c2) ==
    \/ Eq(mag2(VSub(c1.pos, c2.pos)),
          Mul(Add(c1.radius, c2.radius), Add(c1.radius, c2.radius)))
    \/ Eq(mag2(VSub(c1.pos, c2.pos)),
          Mul(Sub(c1.radius, c2.radius), Sub(c1.radius, c2.radius)))

\* The point is on the boundary of both circles (exactly).
OnBoth(c1, c2, p) ==
    /\ Eq(mag2(VSub(p, c1.pos)), Mul(c1.radius, c1.radius))
    /\ Eq(mag2(VSub(p, c2.pos)), Mul(c2.radius, c2.radius))

\* The mirror image of p in the line through the two centers.
Reflect(c1, c2, p) ==
    VSub(VScale(VAdd(c1.pos,
                     VScale(VSub(c2.pos, c1.pos),
                            Div(dot(VSub(p, c1.pos), VSub(c2.pos, c1.pos)),
                                mag2(VSub(c2.pos, c1.pos))))),
                Int2(2)),
         p)

\* C8 as stated: circles with different centers that cross properly report
\* exactly two points, tangent circles exactly one, and the others false and none.
C8_PointCount ==
    (Done("circle_circle") /\ call.a.pos # call.b.pos) =>
        IF CrossProperly(call.a, call.b) THEN ret /\ Len(intersections) = 2
        ELSE IF Tangent(call.a, call.b) THEN ret /\ Len(intersections) = 1
        ELSE ~ret /\ intersections = <<>>

\* C8 amended: circles with different centers that cross properly report their two
\* crossing points when these differ by more than EPSILON on some axis, and only
\* the first of them when they agree within EPSILON on both axes; tangent circles
\* report exactly one point; the others return false and report none.  Every
\* reported point is on both circles.
C8_PointCountWithinEpsilon ==
    (Done("circle_circle") /\ call.a.pos # call.b.pos) =>
        IF CrossProperly(call.a, call.b)
        THEN /\ ret
             /\ Len(intersections) \in {1, 2}
             /\ \A p \in Range(intersections) : OnBoth(call.a, call.b, p)
             /\ Len(intersections) = 1 <=>
                    equal_vec(intersections[1], Reflect(call.a, call.b, intersections[1]))
             /\ Len(intersections) = 2 =>
                    intersections[2] = Reflect(call.a, call.b, intersections[1])
        ELSE IF Tangent(call.a, call.b)
        THEN /\ ret
             /\ Len(intersections) = 1
             /\ OnBoth(call.a, call.b, intersections[1])
        ELSE ~ret /\ intersections = <<>>

\* C8's case: two circles cross properly at two points closer than EPSILON on
\* both axes, and one point is reported.
C8_Witness ==
    /\ Done("circle_circle")
    /\ call.a.pos # call.b.pos
    /\ CrossProperly(call.a, call.b)
    /\ ret
    /\ Len(intersections) = 1
    /\ intersections[1] # Reflect(call.a, call.b, intersections[1])

\* C9: when the distance of the center to the line through the segment exceeds
\* radius + EPSILON, intersects(circle, line) returns false and reports no point,
\* and the square root of the negative radius^2 - distToLine^2 is not taken.
C9_OutOfRange ==
    (/\ Done("circle_line")
     /\ NonDegenerate(call.b)
     /\ Gt(line_dist(call.b, call.a.pos), Add(call.a.radius, EPSILON))) =>
        (~ret /\ intersections = <<>> /\ "sqrt_neg" \notin trace)

\* C10: line.dist(point) on a segment with start = end is the distance of the
\* point to start, and no predicate that takes a segment divides by the zero
\* squared magnitude of its direction vector.
C10_DegenerateSegment ==
    /\ (Done("line_dist") /\ call.a.start = call.a.end)
           => value = dist(call.b, call.a.start)
    /\ pc = "done" => "div0_mag2" \notin trace

\* C11: for every rect, zero and negative sizes included, side(0), side(1),
\* side(2), side(3) are LEFT = (top_left -> bottom_left), TOP = (top_left ->
\* top_right), RIGHT = (top_right -> bottom_right), BOTTOM = (bottom_left ->
\* bottom_right), and side(i) is left(), top(), right(), bottom() for
\* i = SIDE_LEFT, SIDE_TOP, SIDE_RIGHT, SIDE_BOTTOM.
C11_SideEnumeration ==
    Done("rect_side") =>
        /\ call.b = 0 => value = Line(top_left(call.a), bottom_left(call.a))
        /\ call.b = 1 => value = Line(top_left(call.a), top_right(call.a))
        /\ call.b = 2 => value = Line(top_right(call.a), bottom_right(call.a))
        /\ call.b = 3 => value = Line(bottom_left(call.a), bottom_right(call.a))
        /\ call.b = SIDE_LEFT => value = left(call.a)
        /\ call.b = SIDE_TOP => value = top(call.a)
        /\ call.b = SIDE_RIGHT => value = right(call.a)
        /\ call.b = SIDE_BOTTOM => value = bottom(call.a)

\* C11's case: side(2) of a rect of width 0 is its right side, from the top
\* right corner (which is the top left one) down to the bottom right corner.
C11_Witness ==
    /\ Done("rect_side")
    /\ call.b = 2
    /\ call.a.size = Vec(Zero, Int2(2))
    /\ value = Line(call.a.pos, Vec(call.a.pos.x, Add(call.a.pos.y, Int2(2))))

\* The indices of the sides of r that contain p, per contains(line, point).
SidesWith(r, p) == {i \in 0..3 : contains_line_point(side(r, i), p)}

Smallest(S) == CHOOSE i \in S : \A j \in S : i <= j

\* C12: intersects(rect, point) stops at the first side, in the order LEFT, TOP,
\* RIGHT, BOTTOM, that contains the point: it adds exactly one point, the query
\* point, to the vector and sets the side output to the smallest index of a side
\* that contains the point (LEFT at the top left corner, TOP at the top right
\* corner); when no side contains the point it returns false and leaves the
\* vector and the side output as they were.
C12_FirstHit ==
    Done("rect_point") =>
        /\ IF SidesWith(call.a, call.b) # {}
           THEN /\ ret
                /\ intersections = Append(call.v, call.b)
                /\ side_out = Smallest(SidesWith(call.a, call.b))
           ELSE /\ ~ret
                /\ intersections = call.v
                /\ side_out = call.s
        /\ call.b = top_left(call.a) => side_out = SIDE_LEFT
        /\ call.b = top_right(call.a) => side_out = SIDE_TOP

\* C12's case: the point is the top right corner, on the top and the right
\* side; the side output held RIGHT from an earlier call and now holds TOP.
C12_Witness ==
    /\ Done("rect_point")
    /\ call.b = top_right(call.a)
    /\ SidesWith(call.a, call.b) = {SIDE_TOP, SIDE_RIGHT}
    /\ call.s = SIDE_RIGHT
    /\ ret
    /\ side_out = SIDE_TOP

\* The points that the line-line test of side i of r1 against side j of r2
\* reports into a fresh vector.
SidePoints(r1, r2, i, j) == intersects_line_line(side(r1, i), side(r2, j), <<>>).pts

\* The tests <<i, j>> that produced points.
SideHits(r1, r2) ==
    {h \in (0..3) \X (0..3) : SidePoints(r1, r2, h[1], h[2]) # <<>>}

\* The place of the test h among the tests H in the scan order: i outer, j inner.
ScanRank(H, h) == Cardinality({g \in H : 4 * g[1] + g[2] <= 4 * h[1] + h[2]})

\* The points are the first points of the tests H in scan order, and the side
\* list holds the r1 sides of H, each once, in increasing order.
CollectedFrom(r1, r2, H) ==
    /\ Len(intersections) = Cardinality(H)
    /\ Len(intersections) <= 16
    /\ \A h \in H : intersections[ScanRank(H, h)] = SidePoints(r1, r2, h[1], h[2])[1]
    /\ Range(side_list) = {h[1] : h \in H}
    /\ \A k \in 1..(Len(side_list) - 1) : side_list[k] < side_list[k + 1]

\* C13: intersects(r1, r2) does the 16 side-against-side line-line tests (r1 side
\* i outer, r2 side j inner), appends the first point of every test that produced
\* points, in scan order, and appends to the side list each r1 side index once,
\* in increasing order, for exactly the r1 sides that contributed a point.
C13_RectRectCollection ==
    Done("rect_rect") => CollectedFrom(call.a, call.b, SideHits(call.a, call.b))

\* C13's case: two sides of r1 contributed, one of them more than one point.
C13_Witness ==
    /\ Done("rect_rect")
    /\ Len(side_list) = 2
    /\ Len(intersections) > 2
    /\ Cardinality(Range(intersections)) > 1

\* The points that intersects(circle, side i of r) reports into a fresh vector.
CirclePoints(c, r, i) == intersects_circle_line(c, side(r, i), <<>>).pts

\* n times the side index i.
Repeat(i, n) == [k \in 1..n |-> i]

\* The vector is the concatenation of the four sides' points in the order LEFT,
\* TOP, RIGHT, BOTTOM, and the side list names the side of each point.
Concatenated(c, r) ==
    /\ intersections = CirclePoints(c, r, 0) \o CirclePoints(c, r, 1)
                           \o CirclePoints(c, r, 2) \o CirclePoints(c, r, 3)
    /\ side_list = Repeat(0, Len(CirclePoints(c, r, 0))) \o Repeat(1, Len(CirclePoints(c, r, 1)))
                       \o Repeat(2, Len(CirclePoints(c, r, 2)))
                       \o Repeat(3, Len(CirclePoints(c, r, 3)))
    /\ ret <=> intersections # <<>>

\* C14: intersects(circle, rect) returns the concatenation, in side order, of the
\* points that intersects(circle, side) reports for each of the four sides, with
\* no deduplication, and one side index per point; intersects(rect, circle)
\* returns the same.
C14_CircleRectConcatenation ==
    /\ Done("circle_rect") => Concatenated(call.a, call.b)
    /\ Done("rect_circle") => Concatenated(call.b, call.a)

\* C14's case: a side contributed two points, and a point is reported twice,
\* for two different sides.
C14_Witness ==
    /\ Done("circle_rect")
    /\ \E i \in 0..3 : Len(CirclePoints(call.a, call.b, i)) = 2
    /\ \E k \in 1..Len(intersections) : \E m \in 1..Len(intersections) :
           /\ k < m
           /\ intersections[k] = intersections[m]
           /\ side_list[k] # side_list[m]

\* pos.x <= p.x <= pos.x + size.x and pos.y <= p.y <= pos.y + size.y
InClosedRect(r, p) ==
    /\ Le(r.pos.x, p.x) /\ Le(p.x, Add(r.pos.x, r.size.x))
    /\ Le(r.pos.y, p.y) /\ Le(p.y, Add(r.pos.y, r.size.y))

\* C15: contains(rect, point) is true if and only if pos.x <= p.x <= pos.x +
\* size.x and pos.y <= p.y <= pos.y + size.y, compared exactly, and
\* contains(rect, line) if and only if contains(rect, line.start) and
\* contains(rect, line.end).
C15_ClosedRect ==
    /\ Done("contains_rect_point") => (ret <=> InClosedRect(call.a, call.b))
    /\ Done("contains_rect_line") =>
           (ret <=> /\ contains_rect_point(call.a, call.b.start)
                    /\ contains_rect_point(call.a, call.b.end))

\* C15's case: a point 1/16, less than EPSILON, beyond the right edge is not
\* contained, though it is within the rect's height.
C15_Witness ==
    /\ Done("contains_rect_point")
    /\ call.b.x = Add(Add(call.a.pos.x, call.a.size.x), Rat(1, 16))
    /\ Le(call.a.pos.y, call.b.y)
    /\ Le(call.b.y, Add(call.a.pos.y, call.a.size.y))
    /\ ~ret

\* The four corners of the rect.
Corners(r) == {top_left(r), top_right(r), bottom_left(r), bottom_right(r)}

\* The squared distance of p to the center is at most radius^2 + EPSILON.
InDiscWithinEpsilon(c, p) ==
    Le(mag2(VSub(c.pos, p)), Add(Mul(c.radius, c.radius), EPSILON))

\* C16: contains(circle, rect) is true if and only if contains(circle, corner) is
\* true for each of the four corners, contains(circle, line) if and only if
\* contains(circle, start) and contains(circle, end), and contains(circle, point)
\* accepts a squared distance of at most radius^2 + EPSILON.
C16_ThroughCirclePoint ==
    /\ Done("contains_circle_rect") =>
           (ret <=> \A p \in Corners(call.b) : contains_circle_point(call.a, p))
    /\ Done("contains_circle_line") =>
           (ret <=> /\ contains_circle_point(call.a, call.b.start)
                    /\ contains_circle_point(call.a, call.b.end))
    /\ Done("contains_circle_point") => (ret <=> InDiscWithinEpsilon(call.a, call.b))

\* What the returned call reports when its outputs are empty on entry.
OnFreshOutputs == intersects_call(call.op, call.a, call.b, <<>>, SIDE_NONE, <<>>)

\* C17: whatever the output vector and the side list held on entry, after an
\* intersects call the vector holds exactly the points of that call and the side
\* list exactly its side indices.
C17_IndependentOfPriorOutputs ==
    (pc = "done" /\ call.op \in IntersectsOps) =>
        /\ intersections = OnFreshOutputs.pts
        /\ call.op \in {"rect_rect", "rect_circle", "line_rect", "rect_line", "circle_rect"}
               => side_list = OnFreshOutputs.sl

\* C18: with int scalars contains(line, point) gives the answer of the
\* real-arithmetic definition for every integer segment and integer point.
C18_IntegerScalar ==
    Done("contains_line_point_int") => (ret <=> contains_line_point(call.a, call.b))

====
